---------------------------- MODULE Spec2Model ----------------------------
(***************************************************************************)
(* Hybrid retrieval-and-generation pipeline (app.py, scripts/hybrid_chat.py)*)
(* and the ingestion script (scripts/pinecone_upload.py).                  *)
(*                                                                         *)
(* One specification for each part:                                        *)
(*   SpecCache   embed_text and its embedding_cache, web service and CLI   *)
(*   SpecGroq    call_groq_chat, web service and CLI                       *)
(*   SpecIngest  pinecone_upload.py: prepare items, upload loop, retry     *)
(*   SpecQuery   pinecone_query, web service and CLI                       *)
(*   SpecGraph   fetch_graph_context, web service and CLI                  *)
(*   SpecChat    the request handlers: chat and interactive_chat           *)
(*   SpecPrompt  build_prompt, web service and CLI                         *)
(*   SpecProvision  pinecone_upload.py: the index is looked up or created  *)
(*   SpecRace    two embed_text calls that overlap on embedding_cache      *)
(* The variable app says which program a behaviour is a run of.            *)
(***************************************************************************)
EXTENDS Integers, Sequences, FiniteSets, TLC

VARIABLES
    app,              \* "web" (app.py), "cli" (hybrid_chat.py), "ingest" (pinecone_upload.py)
    embedding_cache,  \* the dict embedding_cache, as the sequence of its (key, value) pairs in insertion order
    embed_ret,        \* outcome of the last embed_text call
    last_op,          \* the last operation on the cache: "none", "embed_text", "clear"
    index_up,         \* the module's index is a Pinecone index (app.py: not None)
    q_pc,             \* pinecone_query: "idle" or "returned"
    q_ret,            \* what the last pinecone_query call gave its caller
    q_store_calls,    \* index.query calls issued by that call
    q_resp,           \* what the store answered to it
    driver_up,        \* the module's driver is a Neo4j driver (app.py: not None)
    f_pc,             \* fetch_graph_context: "idle" or "returned"
    f_ids,            \* the node_ids of the last call
    f_run,            \* what that call did: facts, queries issued, errors
    f_ret,            \* what it gave its caller
    c_pc,             \* the request handler: "idle", the call it makes next, "done", "exited"
    c_in,             \* the request body, or the line typed
    c_query,          \* query
    c_matches,        \* matches
    c_ids,            \* match_ids
    c_arg,            \* the argument fetch_graph_context was called with
    c_facts,          \* graph_facts
    c_prompt,         \* prompt
    c_steps,          \* the calls made for the request, in order
    c_fail,           \* the collaborators that failed during the request
    c_out,            \* the response sent, or what was printed
    g_pc, g_prompt, g_next, g_calls, g_ret,
    nodes, n_pos, items, skipped, seen_ids,
    pc, i, vectors, attempt, retry_delay, sleeps, calls, ret,
    successful_upserts, failed_upserts, attempted, submitted,
    no_embeddings,    \* the batches in which every get_embedding failed
    index_name,       \* config.PINECONE_INDEX_NAME
    indexes,          \* the names of the indexes the store holds
    v_pc,             \* provisioning: "start", "listed", "open", "ready", "aborted"
    existing_indexes, \* existing_indexes
    created,          \* create_index was called in this run
    create_calls,     \* the create_index calls of all runs, in order
    index,            \* the name index was opened with
    runs,             \* the number of the run
    r_pc,             \* overlapping embed_text calls: where each call is
    r_text,           \* the text each call was given
    r_miss,           \* the call found its text missing from the cache
    r_vec,            \* normalized, or the cached vector a hit returns
    r_len,            \* the dict's size when the call made its iterator
    r_key,            \* the key next(iter(embedding_cache)) gave the call
    r_out             \* how the call ended

cacheVars == <<embedding_cache, embed_ret, last_op>>
queryVars == <<index_up, q_pc, q_ret, q_store_calls, q_resp>>
graphVars == <<driver_up, f_pc, f_ids, f_run, f_ret>>
chatVars == <<c_pc, c_in, c_query, c_matches, c_ids, c_arg, c_facts, c_prompt,
              c_steps, c_fail, c_out>>
pipeVars == <<queryVars, graphVars, chatVars>>
groqVars == <<g_pc, g_prompt, g_next, g_calls, g_ret>>
prepVars == <<nodes, n_pos, items, skipped, seen_ids>>
loopVars == <<pc, i, vectors, attempt, retry_delay, sleeps, calls, ret,
              successful_upserts, failed_upserts, attempted, submitted,
              no_embeddings>>
provVars == <<index_name, indexes, v_pc, existing_indexes, created, create_calls,
              index, runs>>
raceVars == <<r_pc, r_text, r_miss, r_vec, r_len, r_key, r_out>>
extraVars == <<provVars, raceVars>>
vars == <<app, cacheVars, groqVars, prepVars, loopVars, pipeVars, extraVars>>

(***************************************************************************)
(* Strings.  A text is lead whitespace characters followed by tail         *)
(* non-whitespace characters; NoneText is Python's None.                   *)
(***************************************************************************)
Min(a, b) == IF a <= b THEN a ELSE b

Text(lead, tail) == [none |-> FALSE, lead |-> lead, tail |-> tail]
NoneText == [none |-> TRUE, lead |-> 0, tail |-> 0]
EmptyText == Text(0, 0)

StrLen(t) == t.lead + t.tail
\* Python truthiness of a str-or-None value
Truthy(t) == ~t.none /\ StrLen(t) > 0
\* t[:n]
Slice(t, n) == Text(Min(t.lead, n), Min(t.tail, n - Min(t.lead, n)))
\* t.strip(): leading whitespace removed (the tail holds no whitespace)
Strip(t) == IF t.tail = 0 THEN EmptyText ELSE Text(0, t.tail)
\* a or b
PyOr(a, b) == IF Truthy(a) THEN a ELSE b

(***************************************************************************)
(* The embedding model and L2 normalisation.  A raw vector is a pair of    *)
(* integers; the unit vector of a non-zero v is kept exactly, as the       *)
(* direction v / gcd(v) with unit = TRUE.                                  *)
(***************************************************************************)
Abs(x) == IF x < 0 THEN -x ELSE x

RECURSIVE GCD(_, _)
GCD(a, b) == IF b = 0 THEN a ELSE GCD(b, a % b)

NoVec == [unit |-> FALSE, dir |-> <<>>]
ZeroVec == <<0, 0>>

\* pooler_output of the external model for a text (a fixed, opaque function)
ModelOutput(t) == <<2 * (t.tail - 1), 2 * ((t.lead + t.tail) % 3)>>

\* (vec / norm).tolist() if norm != 0 else vec.tolist()
Normalize(v) ==
    IF v = ZeroVec
    THEN [unit |-> FALSE, dir |-> v]
    ELSE LET g == GCD(Abs(v[1]), Abs(v[2]))
         IN  [unit |-> TRUE, dir |-> <<v[1] \div g, v[2] \div g>>]

(***************************************************************************)
(* Python dict, insertion ordered.                                         *)
(***************************************************************************)
DictKeys(d) == {d[k].key : k \in 1..Len(d)}
DictHas(d, key) == key \in DictKeys(d)
DictGet(d, key) == (CHOOSE k \in 1..Len(d) : d[k].key = key)
DictValue(d, key) == d[DictGet(d, key)].value
\* d[key] = value: in place when the key is there, appended otherwise
DictSet(d, key, value) ==
    IF DictHas(d, key)
    THEN [d EXCEPT ![DictGet(d, key)].value = value]
    ELSE Append(d, [key |-> key, value |-> value])
\* d.pop(next(iter(d)))
DictPopFirst(d) == Tail(d)
\* d.pop(key), key in d
DictRemove(d, key) == SelectSeq(d, LAMBDA e : e.key # key)


(***************************************************************************)
(* Values the variables of a program hold while another program runs.      *)
(***************************************************************************)
NoRet == [outcome |-> "none", text |-> NoneText, value |-> NoVec, invoked |-> FALSE]
NoReply == [raised |-> FALSE, value |-> ""]
NoUpsertRet == [result |-> "None", error |-> "None"]

NoMatches == [raised |-> FALSE, value |-> <<>>]

CacheIdle == embedding_cache = <<>> /\ embed_ret = NoRet /\ last_op = "none"
NoResp == [kind |-> "none", matches |-> <<>>]
QueryIdle ==
    q_pc = "idle" /\ q_ret = NoMatches /\ q_store_calls = 0 /\ q_resp = NoResp
FetchIdle ==
    /\ f_pc = "idle" /\ f_ids = <<>> /\ f_ret = NoMatches
    /\ f_run = [facts |-> <<>>, queries |-> <<>>, errored |-> <<>>, lost_at |-> 0,
                opened |-> FALSE]
NoBody == [json |-> FALSE, has_message |-> FALSE, message |-> NoneText]
NoOut ==
    [kind |-> "none", status |-> 0, error |-> "", response |-> "",
     matches |-> <<>>, graph_nodes |-> <<>>]
ChatIdle ==
    /\ c_pc = "idle" /\ c_in = NoBody /\ c_query = NoneText
    /\ c_matches = <<>> /\ c_ids = <<>> /\ c_arg = <<>> /\ c_facts = <<>>
    /\ c_prompt = <<>> /\ c_steps = <<>> /\ c_fail = {} /\ c_out = NoOut

PipeIdle ==
    index_up = TRUE /\ QueryIdle /\ driver_up = TRUE /\ FetchIdle /\ ChatIdle
GroqIdle ==
    /\ g_pc = "idle" /\ g_prompt = 0 /\ g_next = 0
    /\ g_calls = <<>> /\ g_ret = NoReply
ProvIdle ==
    /\ index_name = "" /\ indexes = {} /\ v_pc = "idle" /\ existing_indexes = {}
    /\ created = FALSE /\ create_calls = <<>> /\ index = "" /\ runs = 0
\* the calls of embed_text that overlap
Callers == {1, 2}
RaceIdle ==
    /\ r_pc = [c \in Callers |-> "idle"]
    /\ r_text = [c \in Callers |-> NoneText]
    /\ r_miss = [c \in Callers |-> FALSE]
    /\ r_vec = [c \in Callers |-> NoVec]
    /\ r_len = [c \in Callers |-> 0]
    /\ r_key = [c \in Callers |-> NoneText]
    /\ r_out = [c \in Callers |-> "none"]
ExtraIdle == ProvIdle /\ RaceIdle
IngestIdle ==
    /\ nodes = <<>> /\ n_pos = 0 /\ items = <<>> /\ skipped = 0 /\ seen_ids = {}
    /\ pc = "idle" /\ i = 0 /\ vectors = <<>>
    /\ attempt = 0 /\ retry_delay = 0 /\ sleeps = <<>> /\ calls = <<>>
    /\ ret = NoUpsertRet
    /\ successful_upserts = 0 /\ failed_upserts = 0
    /\ attempted = {} /\ submitted = {} /\ no_embeddings = {}

(***************************************************************************)
(* embed_text and the embedding cache.                                     *)
(* CACHE_MAX_SIZE is 1000 in hybrid_chat.py:28 and config.py:29; the model *)
(* runs it at a small capacity, every property being stated in terms of    *)
(* CACHE_MAX_SIZE itself.  The texts are one more than the capacity.       *)
(***************************************************************************)
CACHE_MAX_SIZE == 3

NumTexts == CACHE_MAX_SIZE + 1
QueryTexts == {Text(0, k) : k \in 1..NumTexts}

\* what embed_text leaves for its caller
Returned(text, value, invoked) ==
    [outcome |-> "return", text |-> text, value |-> value, invoked |-> invoked]
ReturnedNone(text) ==
    [outcome |-> "return_none", text |-> text, value |-> NoVec, invoked |-> TRUE]
Raised(text) ==
    [outcome |-> "raise", text |-> text, value |-> NoVec, invoked |-> TRUE]

\* app.py: embedding_cache[text] = normalized
WebStore(d, text, normalized) == DictSet(d, text, normalized)

\* app.py embed_text on cache d; model_ok: the tokenizer and model calls do
\* not throw.  The cache it leaves and what it returns.
WebEmbed(d, text, model_ok) ==
    IF DictHas(d, text)
    THEN [cache |-> d, ret |-> Returned(text, DictValue(d, text), FALSE)]
    ELSE IF model_ok
    THEN LET normalized == Normalize(ModelOutput(text))
         IN  [cache |-> WebStore(d, text, normalized),
              ret |-> Returned(text, normalized, TRUE)]
    ELSE [cache |-> d, ret |-> ReturnedNone(text)]

\* a call of app.py embed_text
WebEmbedText(text, model_ok) ==
    /\ app = "web"
    /\ LET e == WebEmbed(embedding_cache, text, model_ok)
       IN  embedding_cache' = e.cache /\ embed_ret' = e.ret
    /\ last_op' = "embed_text"
    /\ UNCHANGED <<app, extraVars, pipeVars, groqVars, prepVars, loopVars>>

\* the store lost: nothing is kept
CliStore_Forgets(d, text, normalized) == d

\* hybrid_chat.py: the store with size limit
CliStore(d, text, normalized) ==
    LET kept == IF Len(d) >= CACHE_MAX_SIZE THEN DictPopFirst(d) ELSE d
    IN  DictSet(kept, text, normalized)

\* hybrid_chat.py embed_text on cache d; a throwing model call propagates
\* to the caller
CliEmbed(d, text, model_ok) ==
    IF DictHas(d, text)
    THEN [cache |-> d, ret |-> Returned(text, DictValue(d, text), FALSE)]
    ELSE IF model_ok
    THEN LET normalized == Normalize(ModelOutput(text))
         IN  [cache |-> CliStore(d, text, normalized),
              ret |-> Returned(text, normalized, TRUE)]
    ELSE [cache |-> d, ret |-> Raised(text)]

\* a call of hybrid_chat.py embed_text
CliEmbedText(text, model_ok) ==
    /\ app = "cli"
    /\ LET e == CliEmbed(embedding_cache, text, model_ok)
       IN  embedding_cache' = e.cache /\ embed_ret' = e.ret
    /\ last_op' = "embed_text"
    /\ UNCHANGED <<app, extraVars, pipeVars, groqVars, prepVars, loopVars>>

\* hybrid_chat.py interactive_chat: the "clear" command
CliClear ==
    /\ app = "cli"
    /\ embedding_cache # <<>>
    /\ embedding_cache' = <<>>
    /\ last_op' = "clear"
    /\ UNCHANGED <<app, extraVars, pipeVars, embed_ret, groqVars, prepVars, loopVars>>

InitCache ==
    /\ app \in {"web", "cli"}
    /\ ExtraIdle /\ CacheIdle /\ GroqIdle /\ IngestIdle /\ PipeIdle

NextCache ==
    \/ \E text \in QueryTexts, model_ok \in BOOLEAN : WebEmbedText(text, model_ok)
    \/ \E text \in QueryTexts, model_ok \in BOOLEAN : CliEmbedText(text, model_ok)
    \/ CliClear

SpecCache == InitCache /\ [][NextCache]_vars

(***************************************************************************)
(* Two calls of embed_text that overlap on the shared embedding_cache, as  *)
(* two threads of one interpreter: each call is cut at the calls it makes  *)
(* on the dict, and the steps of the two calls interleave in any order.    *)
(***************************************************************************)
otherVars == <<embed_ret, last_op, groqVars, prepVars, loopVars, pipeVars, provVars>>

\* if text in embedding_cache:
RaceCheck(c) ==
    /\ r_pc[c] = "call"
    /\ IF DictHas(embedding_cache, r_text[c])
       THEN r_pc' = [r_pc EXCEPT ![c] = "hit"] /\ r_miss' = r_miss
       ELSE /\ r_pc' = [r_pc EXCEPT ![c] = "compute"]
            /\ r_miss' = [r_miss EXCEPT ![c] = TRUE]
    /\ UNCHANGED <<app, embedding_cache, r_text, r_vec, r_len, r_key, r_out, otherVars>>

\* return embedding_cache[text]: KeyError when the key has gone since the test
RaceReadHit(c) ==
    /\ r_pc[c] = "hit"
    /\ IF DictHas(embedding_cache, r_text[c])
       THEN /\ r_vec' = [r_vec EXCEPT ![c] = DictValue(embedding_cache, r_text[c])]
            /\ r_out' = [r_out EXCEPT ![c] = "return"]
       ELSE /\ r_vec' = r_vec
            /\ r_out' = [r_out EXCEPT ![c] = "KeyError"]
    /\ r_pc' = [r_pc EXCEPT ![c] = "done"]
    /\ UNCHANGED <<app, embedding_cache, r_text, r_miss, r_len, r_key, otherVars>>

\* tokenizer, model, normalisation.  A throwing model call: app.py returns
\* None from its except clause, hybrid_chat.py lets it propagate.
RaceCompute(c, model_ok) ==
    /\ r_pc[c] = "compute"
    /\ IF model_ok
       THEN /\ r_vec' = [r_vec EXCEPT ![c] = Normalize(ModelOutput(r_text[c]))]
            /\ r_pc' = [r_pc EXCEPT ![c] = IF app = "cli" THEN "size" ELSE "insert"]
            /\ r_out' = r_out
       ELSE /\ r_vec' = r_vec
            /\ r_pc' = [r_pc EXCEPT ![c] = "done"]
            /\ r_out' = [r_out EXCEPT ![c] =
                             IF app = "cli" THEN "model_error" ELSE "return_none"]
    /\ UNCHANGED <<app, embedding_cache, r_text, r_miss, r_len, r_key, otherVars>>

\* hybrid_chat.py: if len(embedding_cache) >= CACHE_MAX_SIZE:
RaceCheckSize(c) ==
    /\ app = "cli" /\ r_pc[c] = "size"
    /\ r_pc' = [r_pc EXCEPT ![c] =
                    IF Len(embedding_cache) >= CACHE_MAX_SIZE THEN "iter" ELSE "insert"]
    /\ UNCHANGED <<app, embedding_cache, r_text, r_miss, r_vec, r_len, r_key, r_out, otherVars>>

\* iter(embedding_cache): the iterator remembers the dict's size
RaceIter(c) ==
    /\ app = "cli" /\ r_pc[c] = "iter"
    /\ r_len' = [r_len EXCEPT ![c] = Len(embedding_cache)]
    /\ r_pc' = [r_pc EXCEPT ![c] = "next"]
    /\ UNCHANGED <<app, embedding_cache, r_text, r_miss, r_vec, r_key, r_out, otherVars>>

\* next(...): RuntimeError when the dict changed size since iter(),
\* StopIteration when it is empty, its first key otherwise
RaceNext(c) ==
    /\ app = "cli" /\ r_pc[c] = "next"
    /\ IF Len(embedding_cache) # r_len[c]
       THEN /\ r_out' = [r_out EXCEPT ![c] = "RuntimeError"]
            /\ r_pc' = [r_pc EXCEPT ![c] = "done"]
            /\ r_key' = r_key
       ELSE IF embedding_cache = <<>>
       THEN /\ r_out' = [r_out EXCEPT ![c] = "StopIteration"]
            /\ r_pc' = [r_pc EXCEPT ![c] = "done"]
            /\ r_key' = r_key
       ELSE /\ r_key' = [r_key EXCEPT ![c] = embedding_cache[1].key]
            /\ r_pc' = [r_pc EXCEPT ![c] = "pop"]
            /\ r_out' = r_out
    /\ UNCHANGED <<app, embedding_cache, r_text, r_miss, r_vec, r_len, otherVars>>

\* embedding_cache.pop(key): KeyError when the key has gone
RacePop(c) ==
    /\ app = "cli" /\ r_pc[c] = "pop"
    /\ IF DictHas(embedding_cache, r_key[c])
       THEN /\ embedding_cache' = DictRemove(embedding_cache, r_key[c])
            /\ r_pc' = [r_pc EXCEPT ![c] = "insert"]
            /\ r_out' = r_out
       ELSE /\ embedding_cache' = embedding_cache
            /\ r_pc' = [r_pc EXCEPT ![c] = "done"]
            /\ r_out' = [r_out EXCEPT ![c] = "KeyError"]
    /\ UNCHANGED <<app, r_text, r_miss, r_vec, r_len, r_key, otherVars>>

\* embedding_cache[text] = normalized; return normalized
RaceInsert(c) ==
    /\ r_pc[c] = "insert"
    /\ embedding_cache' = DictSet(embedding_cache, r_text[c], r_vec[c])
    /\ r_pc' = [r_pc EXCEPT ![c] = "done"]
    /\ r_out' = [r_out EXCEPT ![c] = "return"]
    /\ UNCHANGED <<app, r_text, r_miss, r_vec, r_len, r_key, otherVars>>

\* the caches embed_text calls leave within the limit: distinct texts in
\* any order, each with its embedding
RECURSIVE CachesOfLen(_)
CachesOfLen(n) ==
    IF n = 0 THEN {<<>>}
    ELSE {DictSet(d, t, Normalize(ModelOutput(t))) :
              d \in CachesOfLen(n - 1), t \in QueryTexts}
InitialCaches ==
    UNION {{d \in CachesOfLen(n) : Len(d) = n} : n \in 0..CACHE_MAX_SIZE}

InitRace ==
    /\ app \in {"web", "cli"}
    /\ ProvIdle /\ GroqIdle /\ IngestIdle /\ PipeIdle
    /\ embedding_cache \in InitialCaches
    /\ embed_ret = NoRet /\ last_op = "none"
    /\ r_pc = [c \in Callers |-> "call"]
    /\ r_text \in [Callers -> QueryTexts]
    /\ r_miss = [c \in Callers |-> FALSE]
    /\ r_vec = [c \in Callers |-> NoVec]
    /\ r_len = [c \in Callers |-> 0]
    /\ r_key = [c \in Callers |-> NoneText]
    /\ r_out = [c \in Callers |-> "none"]

NextRace ==
    \/ \E c \in Callers : RaceCheck(c)
    \/ \E c \in Callers : RaceReadHit(c)
    \/ \E c \in Callers, model_ok \in BOOLEAN : RaceCompute(c, model_ok)
    \/ \E c \in Callers : RaceCheckSize(c)
    \/ \E c \in Callers : RaceIter(c)
    \/ \E c \in Callers : RaceNext(c)
    \/ \E c \in Callers : RacePop(c)
    \/ \E c \in Callers : RaceInsert(c)

SpecRace == InitRace /\ [][NextRace]_vars

(***************************************************************************)
(* call_groq_chat.                                                         *)
(***************************************************************************)
NumPrompts == 3
Prompts == 1..NumPrompts
Replies == {"reply_a", "reply_b"}
\* a call that throws; a call that returns a response with no choices
\* (response.choices[0] throws); a call whose text is read
Outcomes == {"error", "malformed", "ok"}

models_to_try == <<"llama-3.3-70b-versatile", "llama-3.1-8b-instant", "gemma2-9b-it">>
CLI_MODEL == "llama-3.3-70b-versatile"
WEB_APOLOGY == "Sorry, I'm having trouble generating a response right now. Please try again in a moment."
CLI_APOLOGY == "I apologize, but I'm having trouble generating a response right now. Please try again."

Call(model, outcome, reply) == [model |-> model, outcome |-> outcome, reply |-> reply]

Return(value) == [raised |-> FALSE, value |-> value]
Raise == [raised |-> TRUE, value |-> ""]

\* the function without its outer handler: the exception leaves it
WebOuterExcept_Propagates(r) == r

\* app.py call_groq_chat, the outer handler: whatever the body raised
\* becomes the apology
WebOuterExcept(r) == IF r.raised THEN Return(WEB_APOLOGY) ELSE r

\* app.py call_groq_chat up to the loop: the client is constructed, or the
\* constructor throws
WebGroqBegin(prompt, client_ok) ==
    /\ app = "web" /\ g_pc = "idle"
    /\ g_prompt' = prompt
    /\ g_calls' = <<>>
    /\ IF client_ok
       THEN g_pc' = "try" /\ g_next' = 1 /\ g_ret' = NoReply
       ELSE g_pc' = "done" /\ g_next' = 0 /\ g_ret' = WebOuterExcept(Raise)
    /\ UNCHANGED <<app, extraVars, pipeVars, cacheVars, prepVars, loopVars>>

\* the loop with its return lost: a model that answered is followed by the next
WebAfterCall_KeepsTrying(k, outcome, reply) ==
    IF k < Len(models_to_try)
    THEN [pc |-> "try", next |-> k + 1, ret |-> NoReply]
    ELSE IF outcome = "ok"
    THEN [pc |-> "done", next |-> k, ret |-> Return(reply)]
    ELSE [pc |-> "done", next |-> k + 1, ret |-> Raise]

\* what the loop does once the call on models_to_try[k] has ended: return the
\* text, go on to the next model, or raise last_error after the last one
WebAfterCall(k, outcome, reply) ==
    IF outcome = "ok"
    THEN [pc |-> "done", next |-> k, ret |-> Return(reply)]
    ELSE IF k < Len(models_to_try)
    THEN [pc |-> "try", next |-> k + 1, ret |-> NoReply]
    ELSE [pc |-> "done", next |-> k + 1, ret |-> Raise]

\* one iteration of the loop over models_to_try
WebGroqTry(outcome, reply) ==
    /\ app = "web" /\ g_pc = "try"
    /\ g_next <= Len(models_to_try)
    /\ LET after == WebAfterCall(g_next, outcome, reply)
       IN  /\ g_calls' = Append(g_calls, Call(models_to_try[g_next], outcome, reply))
           /\ g_pc' = after.pc
           /\ g_next' = after.next
           /\ g_ret' = IF after.pc = "done" THEN WebOuterExcept(after.ret) ELSE after.ret
    /\ UNCHANGED <<app, extraVars, pipeVars, g_prompt, cacheVars, prepVars, loopVars>>

\* hybrid_chat.py call_groq_chat, its handler
CliOuterExcept(r) == IF r.raised THEN Return(CLI_APOLOGY) ELSE r

\* hybrid_chat.py call_groq_chat up to the completion call
CliGroqBegin(prompt, client_ok) ==
    /\ app = "cli" /\ g_pc = "idle"
    /\ g_prompt' = prompt
    /\ g_calls' = <<>>
    /\ IF client_ok
       THEN g_pc' = "try" /\ g_next' = 1 /\ g_ret' = NoReply
       ELSE g_pc' = "done" /\ g_next' = 0 /\ g_ret' = CliOuterExcept(Raise)
    /\ UNCHANGED <<app, extraVars, pipeVars, cacheVars, prepVars, loopVars>>

\* the completion call has ended: its text, or the exception it or the
\* reading of response.choices[0] threw
CliAfterCall(outcome, reply) == IF outcome = "ok" THEN Return(reply) ELSE Raise

\* hybrid_chat.py call_groq_chat: its one completion call
CliGroqCall(outcome, reply) ==
    /\ app = "cli" /\ g_pc = "try"
    /\ g_calls' = Append(g_calls, Call(CLI_MODEL, outcome, reply))
    /\ g_pc' = "done"
    /\ g_next' = g_next + 1
    /\ g_ret' = CliOuterExcept(CliAfterCall(outcome, reply))
    /\ UNCHANGED <<app, extraVars, pipeVars, g_prompt, cacheVars, prepVars, loopVars>>

\* the caller has the answer; the next request may come
GroqReturn ==
    /\ g_pc = "done"
    /\ g_pc' = "idle" /\ g_prompt' = 0 /\ g_next' = 0
    /\ g_calls' = <<>> /\ g_ret' = NoReply
    /\ UNCHANGED <<app, extraVars, pipeVars, cacheVars, prepVars, loopVars>>

InitGroq ==
    /\ app \in {"web", "cli"}
    /\ ExtraIdle /\ CacheIdle /\ GroqIdle /\ IngestIdle /\ PipeIdle

NextGroq ==
    \/ \E prompt \in Prompts, client_ok \in BOOLEAN : WebGroqBegin(prompt, client_ok)
    \/ \E outcome \in Outcomes, reply \in Replies : WebGroqTry(outcome, reply)
    \/ \E prompt \in Prompts, client_ok \in BOOLEAN : CliGroqBegin(prompt, client_ok)
    \/ \E outcome \in Outcomes, reply \in Replies : CliGroqCall(outcome, reply)
    \/ GroqReturn

SpecGroq == InitGroq /\ [][NextGroq]_vars

(***************************************************************************)
(* pinecone_query: app.py 99-117, hybrid_chat.py 66-80.  A score is an     *)
(* integer number of hundredths, so that SCORE_THRESHOLD 0.7 is 70.  A     *)
(* match of the store's answer is identified by its position in the        *)
(* answer; a match may come without a "score" key.                         *)
(***************************************************************************)
SCORE_THRESHOLD == 70
MaxMatches == 4
Scores == {50, 65, 70, 75, 90}

ScoreOptions ==
    {[has_score |-> TRUE, score |-> sc] : sc \in Scores}
        \cup {[has_score |-> FALSE, score |-> 0]}

\* the match lists the store can answer with, in the store's order
StoreMatches ==
    UNION { { [k \in 1..n |-> [id |-> k, has_score |-> f[k].has_score,
                                score |-> f[k].score]] :
                f \in [1..n -> ScoreOptions] } : n \in 0..MaxMatches }

\* index.query: it throws, or answers with or without a "matches" key
StoreResponses ==
    {[kind |-> "error", matches |-> <<>>], [kind |-> "no_matches_key", matches |-> <<>>]}
        \cup {[kind |-> "matches", matches |-> ms] : ms \in StoreMatches}

\* the two texts queried
QueryInputs == {Text(0, 1), Text(0, 2)}

\* m.get("score", 0)
GetScore(m) == IF m.has_score THEN m.score ELSE 0

\* the comparison made strict
PassesThreshold_Strict(m) == GetScore(m) > SCORE_THRESHOLD

\* m.get("score", 0) >= SCORE_THRESHOLD
PassesThreshold(m) == GetScore(m) >= SCORE_THRESHOLD

\* [m for m in matches if ...]
Filtered(matches) == SelectSeq(matches, PassesThreshold)

QReturn(value) == [raised |-> FALSE, value |-> value]
QRaise == [raised |-> TRUE, value |-> <<>>]

\* no handler: the exception reaches the caller
QueryExcept_Propagates(r) == r

\* except Exception as e: log, return []
QueryExcept(r) == IF r.raised THEN QReturn(<<>>) ELSE r

\* index.query(...), res.get("matches", []), the filter, return filtered
StoreRespond(resp) ==
    IF resp.kind = "error" THEN QRaise
    ELSE QReturn(Filtered(IF resp.kind = "matches" THEN resp.matches ELSE <<>>))

\* app.py pinecone_query on cache d with the index up or None: the cache it
\* leaves, what embed_text returned if it was called, the store calls made,
\* what the store answered, and the value returned
WebQueryRun(d, text, model_ok, resp, up) ==
    IF ~up
    THEN [cache |-> d, embedded |-> FALSE, embed |-> NoRet,
          store_calls |-> 0, resp |-> NoResp, ret |-> QReturn(<<>>)]
    ELSE LET e == WebEmbed(d, text, model_ok)
         IN  IF e.ret.outcome = "return_none"
             THEN [cache |-> e.cache, embedded |-> TRUE, embed |-> e.ret,
                   store_calls |-> 0, resp |-> NoResp, ret |-> QReturn(<<>>)]
             ELSE [cache |-> e.cache, embedded |-> TRUE, embed |-> e.ret,
                   store_calls |-> 1, resp |-> resp,
                   ret |-> QueryExcept(StoreRespond(resp))]

\* hybrid_chat.py pinecone_query: embed_text is called inside the try
CliQueryRun(d, text, model_ok, resp) ==
    LET e == CliEmbed(d, text, model_ok)
    IN  IF e.ret.outcome = "raise"
        THEN [cache |-> e.cache, embedded |-> TRUE, embed |-> e.ret,
              store_calls |-> 0, resp |-> NoResp, ret |-> QueryExcept(QRaise)]
        ELSE [cache |-> e.cache, embedded |-> TRUE, embed |-> e.ret,
              store_calls |-> 1, resp |-> resp,
              ret |-> QueryExcept(StoreRespond(resp))]

\* the effect of a pinecone_query call on the module state
QueryEffect(run) ==
    /\ embedding_cache' = run.cache
    /\ embed_ret' = IF run.embedded THEN run.embed ELSE embed_ret
    /\ last_op' = IF run.embedded THEN "embed_text" ELSE last_op
    /\ q_pc' = "returned"
    /\ q_ret' = run.ret
    /\ q_store_calls' = run.store_calls
    /\ q_resp' = run.resp

\* a call of app.py pinecone_query
WebPineconeQuery(text, model_ok, resp) ==
    /\ app = "web" /\ q_pc = "idle"
    /\ QueryEffect(WebQueryRun(embedding_cache, text, model_ok, resp, index_up))
    /\ UNCHANGED <<app, extraVars, index_up, graphVars, chatVars, groqVars, prepVars, loopVars>>

\* a call of hybrid_chat.py pinecone_query
CliPineconeQuery(text, model_ok, resp) ==
    /\ app = "cli" /\ q_pc = "idle"
    /\ QueryEffect(CliQueryRun(embedding_cache, text, model_ok, resp))
    /\ UNCHANGED <<app, extraVars, index_up, graphVars, chatVars, groqVars, prepVars, loopVars>>

\* the caller takes the list; the next query can start
QueryReturn ==
    /\ q_pc = "returned"
    /\ q_pc' = "idle" /\ q_ret' = NoMatches /\ q_store_calls' = 0 /\ q_resp' = NoResp
    /\ UNCHANGED <<app, extraVars, index_up, graphVars, chatVars, cacheVars, groqVars, prepVars, loopVars>>

InitQuery ==
    /\ app \in {"web", "cli"}
    /\ index_up \in (IF app = "web" THEN BOOLEAN ELSE {TRUE})
    /\ driver_up = TRUE
    /\ ExtraIdle /\ CacheIdle /\ QueryIdle /\ FetchIdle /\ ChatIdle /\ GroqIdle /\ IngestIdle

NextQuery ==
    \/ \E text \in QueryInputs, model_ok \in BOOLEAN, resp \in StoreResponses :
           WebPineconeQuery(text, model_ok, resp)
    \/ \E text \in QueryInputs, model_ok \in BOOLEAN, resp \in StoreResponses :
           CliPineconeQuery(text, model_ok, resp)
    \/ QueryReturn

SpecQuery == InitQuery /\ [][NextQuery]_vars

(***************************************************************************)
(* fetch_graph_context: app.py 119-153, hybrid_chat.py 82-112.  The graph  *)
(* is fixed; a node id is a number, and a fact is the row of a node's query *)
(* it was built from.  Each                                                *)
(* query of a call succeeds, or raises after some of its rows were read    *)
(* (none: at the session.run call), the connection surviving or not; once  *)
(* the connection is lost every later session.run of the session raises.   *)
(***************************************************************************)
MaxIds == 3
MaxAfter == 1
NumNodeIds == 3

\* node ids, as the matches carry them: the store's k-th match is node k
NodeIds == 1..NumNodeIds

\* the rows the query of a node yields: two for odd ids, one for even ids
GraphRows(nid) == 1 + (nid % 2)

IdLists == UNION {[1..n -> NodeIds] : n \in 0..MaxIds}

QueryOutcomes ==
    {[kind |-> "ok", after |-> 0]}
        \cup {[kind |-> kd, after |-> j] : kd \in {"error", "conn_lost"}, j \in 0..MaxAfter}

Scripts(ids) == [1..Len(ids) -> QueryOutcomes]

\* facts.append({"source": nid, ...}) for the first n rows of nid
RowsOf(nid, n) == [j \in 1..n |-> [source |-> nid, row |-> j]]

\* nothing done yet: facts = []
FetchStart ==
    [facts |-> <<>>, queries |-> <<>>, errored |-> <<>>, lost_at |-> 0, opened |-> FALSE]

\* the body of "for nid in node_ids" for the k-th id: session.run, the rows
\* appended one by one, and the inner except that skips to the next id
FetchStep(st, nid, k, outcome) ==
    LET dead == st.lost_at # 0
        o == IF dead THEN [kind |-> "error", after |-> 0] ELSE outcome
        n == IF o.kind = "ok" THEN GraphRows(nid) ELSE Min(o.after, GraphRows(nid))
    IN  [facts |-> st.facts \o RowsOf(nid, n),
         queries |-> Append(st.queries, nid),
         errored |-> Append(st.errored, o.kind # "ok"),
         lost_at |-> IF ~dead /\ o.kind = "conn_lost" THEN k ELSE st.lost_at,
         opened |-> st.opened]

RECURSIVE FetchLoop(_, _, _, _)
FetchLoop(ids, script, k, st) ==
    IF k > Len(ids) THEN st
    ELSE FetchLoop(ids, script, k + 1, FetchStep(st, ids[k], k, script[k]))

\* with driver.session() as session: the loop, or the outer except when the
\* session cannot be opened; return facts
FetchSession(ids, script, session_ok) ==
    IF session_ok
    THEN FetchLoop(ids, script, 1, [FetchStart EXCEPT !.opened = TRUE])
    ELSE FetchStart

\* app.py fetch_graph_context
WebFetchRun(ids, script, session_ok, up) ==
    IF ~up THEN FetchStart
    ELSE IF ids = <<>> THEN FetchStart
    ELSE FetchSession(ids, script, session_ok)

\* hybrid_chat.py fetch_graph_context
CliFetchRun(ids, script, session_ok) == FetchSession(ids, script, session_ok)

\* a call of app.py fetch_graph_context
WebFetchGraphContext(ids, script, session_ok) ==
    /\ app = "web" /\ f_pc = "idle"
    /\ f_pc' = "returned"
    /\ f_ids' = ids
    /\ f_run' = WebFetchRun(ids, script, session_ok, driver_up)
    /\ f_ret' = QReturn(f_run'.facts)
    /\ UNCHANGED <<app, extraVars, driver_up, queryVars, chatVars, cacheVars, groqVars, prepVars, loopVars>>

\* a call of hybrid_chat.py fetch_graph_context
CliFetchGraphContext(ids, script, session_ok) ==
    /\ app = "cli" /\ f_pc = "idle"
    /\ f_pc' = "returned"
    /\ f_ids' = ids
    /\ f_run' = CliFetchRun(ids, script, session_ok)
    /\ f_ret' = QReturn(f_run'.facts)
    /\ UNCHANGED <<app, extraVars, driver_up, queryVars, chatVars, cacheVars, groqVars, prepVars, loopVars>>

\* the caller takes the facts; the next call can start
FetchReturn ==
    /\ f_pc = "returned"
    /\ f_pc' = "idle" /\ f_ids' = <<>> /\ f_run' = FetchStart /\ f_ret' = NoMatches
    /\ UNCHANGED <<app, extraVars, driver_up, queryVars, chatVars, cacheVars, groqVars, prepVars, loopVars>>

InitGraph ==
    /\ app \in {"web", "cli"}
    /\ driver_up \in (IF app = "web" THEN BOOLEAN ELSE {TRUE})
    /\ index_up = TRUE
    /\ ExtraIdle /\ CacheIdle /\ QueryIdle /\ FetchIdle /\ ChatIdle /\ GroqIdle /\ IngestIdle

NextGraph ==
    \/ \E ids \in IdLists, session_ok \in BOOLEAN : \E script \in Scripts(ids) :
           WebFetchGraphContext(ids, script, session_ok)
    \/ \E ids \in IdLists, session_ok \in BOOLEAN : \E script \in Scripts(ids) :
           CliFetchGraphContext(ids, script, session_ok)
    \/ FetchReturn

SpecGraph == InitGraph /\ [][NextGraph]_vars

(***************************************************************************)
(* build_prompt: app.py 155-192, hybrid_chat.py 114-152.  A message's      *)
(* content is kept as its parts: the query and the sections that follow    *)
(* it, each a title and its lines.  A line is kept as the match or fact it *)
(* was formatted from.                                                     *)
(***************************************************************************)
WEB_VEC_LINES == 8
WEB_FACT_LINES == 15
CLI_VEC_LINES == 10
CLI_FACT_LINES == 20

WEB_SYSTEM == "You are an expert Vietnam travel assistant. Use the provided data to answer queries accurately."
CLI_SYSTEM == "You are an expert Vietnam travel assistant with deep knowledge of Vietnamese culture, geography, and tourism."
NO_CONTEXT == "No specific context available. Use your general knowledge about Vietnam."

\* s[:n] of a list
Take(s, n) == SubSeq(s, 1, Min(n, Len(s)))

\* the line of a match: its id and m.get("score", 0)
VecLine(m) == [node |-> m.id, score |-> GetScore(m)]

Section(title, lines) == [title |-> title, lines |-> lines]

Message(role, content) == [role |-> role, content |-> content]

\* if not context_section: context_section = "No specific context ..."
NoticeIfEmpty(context_section) ==
    IF context_section = <<>> THEN <<Section(NO_CONTEXT, <<>>)>> ELSE context_section

\* app.py build_prompt
WebBuildPrompt(user_query, matches, graph_facts) ==
    LET vec_context == [k \in 1..Len(matches) |-> VecLine(matches[k])]
        graph_context == Take(graph_facts, WEB_FACT_LINES)
        context_section ==
            (IF vec_context # <<>>
             THEN <<Section("Vector Search Results:", Take(vec_context, WEB_VEC_LINES))>>
             ELSE <<>>)
            \o (IF graph_context # <<>>
                THEN <<Section("Graph Relationships:", graph_context)>>
                ELSE <<>>)
    IN  << Message("system", WEB_SYSTEM),
           Message("user", [query |-> user_query,
                            sections |-> NoticeIfEmpty(context_section)]) >>

\* hybrid_chat.py build_prompt: both sections, whatever the lists hold
CliBuildPrompt(user_query, pinecone_matches, graph_facts) ==
    LET vec_context == [k \in 1..Len(pinecone_matches) |-> VecLine(pinecone_matches[k])]
        graph_context == Take(graph_facts, CLI_FACT_LINES)
    IN  << Message("system", CLI_SYSTEM),
           Message("user",
               [query |-> user_query,
                sections |->
                    << Section("=== Semantic Search Results (Vector DB) ===",
                               Take(vec_context, CLI_VEC_LINES)),
                       Section("=== Graph Relationships (Knowledge Graph) ===",
                               graph_context) >>]) >>

(***************************************************************************)
(* The request handlers: chat (app.py 237-270) and interactive_chat        *)
(* (hybrid_chat.py 172-221), one action for each call they make.           *)
(***************************************************************************)
MaxChatMatches == 2

\* request bodies: no JSON body; a JSON object without "message", or with a
\* message that is null, empty, whitespace only, or a question
Bodies ==
    {NoBody, [json |-> TRUE, has_message |-> FALSE, message |-> NoneText]}
        \cup {[json |-> TRUE, has_message |-> TRUE, message |-> t] :
                 t \in {NoneText, EmptyText, Text(2, 0), Text(0, 1), Text(1, 2)}}

\* lines typed at the prompt: a command word, or any other text
Lines ==
    {[word |-> w, text |-> Text(0, 4)] : w \in {"exit", "quit", "clear"}}
        \cup {[word |-> "", text |-> t] :
                 t \in {EmptyText, Text(2, 0), Text(0, 1), Text(1, 2)}}

\* what the store, the graph and the chat model do during a request
ChatResponses ==
    {resp \in StoreResponses :
        /\ resp.kind # "no_matches_key"
        /\ Len(resp.matches) <= MaxChatMatches
        /\ \A k \in 1..Len(resp.matches) :
               resp.matches[k].has_score /\ resp.matches[k].score \in {65, 90}}
ChatScripts(n) ==
    [1..n -> {o \in QueryOutcomes : o.after = 0}]
ChatCalls == {[outcome |-> o, reply |-> "reply_a"] : o \in {"error", "ok"}}
ChatAttempts == [1..Len(models_to_try) -> ChatCalls]

\* jsonify({'response': answer, 'matches': matches, 'graph_nodes': match_ids})
Ok(answer, matches, match_ids) ==
    [kind |-> "ok", status |-> 200, error |-> "", response |-> answer,
     matches |-> matches, graph_nodes |-> match_ids]
\* jsonify({'error': 'Empty query'}), 400
ClientError == [NoOut EXCEPT !.kind = "error", !.status = 400, !.error = "Empty query"]
\* jsonify({'error': 'An error occurred processing your request'}), 500
ServerError ==
    [NoOut EXCEPT !.kind = "error", !.status = 500,
                  !.error = "An error occurred processing your request"]
\* what the CLI prints
Printed(kind, text) == [NoOut EXCEPT !.kind = kind, !.response = text]

\* the ids reversed
MatchIds_Reversed(matches) ==
    [k \in 1..Len(matches) |-> matches[Len(matches) + 1 - k].id]

\* match_ids = [m["id"] for m in matches]
MatchIds(matches) == [k \in 1..Len(matches) |-> matches[k].id]

\* the failures of a pinecone_query call
QueryFailures(run, up) ==
    (IF ~up THEN {"index"} ELSE {})
        \cup (IF run.embedded /\ run.embed.outcome # "return" THEN {"embed"} ELSE {})
        \cup (IF run.resp.kind = "error" THEN {"store"} ELSE {})

\* the failures of a fetch_graph_context call
FetchFailures(ids, run, up) ==
    IF ~up THEN {"driver"}
    ELSE IF ids # <<>> /\ ~run.opened THEN {"session"}
    ELSE IF \E k \in 1..Len(run.errored) : run.errored[k] THEN {"graph"}
    ELSE {}

RECURSIVE WebGroqLoop(_, _)
\* the loop over models_to_try from the k-th model on
WebGroqLoop(k, attempts) ==
    LET after == WebAfterCall(k, attempts[k].outcome, attempts[k].reply)
    IN  IF after.pc = "done" THEN after.ret ELSE WebGroqLoop(after.next, attempts)

\* app.py call_groq_chat as a whole
WebGroqRun(client_ok, attempts) ==
    WebOuterExcept(IF client_ok THEN WebGroqLoop(1, attempts) ELSE Raise)

\* hybrid_chat.py call_groq_chat as a whole
CliGroqRun(client_ok, call) ==
    CliOuterExcept(IF client_ok THEN CliAfterCall(call.outcome, call.reply)
                   ELSE Raise)

\* a request ends with out
ChatEnds(out) == c_pc' = "done" /\ c_out' = out

\* chat: request.json, data.get('message', '').strip(), the empty check.
\* Without a JSON body request.json is None or raises, and with a null
\* message strip() is called on None: the handler's except answers
WebChatRequest(body) ==
    /\ app = "web" /\ c_pc = "idle"
    /\ c_in' = body
    /\ IF ~body.json
       THEN ChatEnds(ServerError) /\ UNCHANGED c_query
       ELSE LET message == IF body.has_message THEN body.message ELSE EmptyText
            IN  IF message.none
                THEN ChatEnds(ServerError) /\ UNCHANGED c_query
                ELSE /\ c_query' = Strip(message)
                     /\ IF ~Truthy(c_query')
                        THEN ChatEnds(ClientError)
                        ELSE c_pc' = "retrieve" /\ UNCHANGED c_out
    /\ UNCHANGED <<c_matches, c_ids, c_arg, c_facts, c_prompt, c_steps, c_fail>>
    /\ UNCHANGED <<app, extraVars, queryVars, graphVars, cacheVars, groqVars, prepVars, loopVars>>

\* matches = pinecone_query(query, top_k=5)
WebChatRetrieve(model_ok, resp) ==
    /\ app = "web" /\ c_pc = "retrieve"
    /\ LET run == WebQueryRun(embedding_cache, c_query, model_ok, resp, index_up)
       IN  /\ embedding_cache' = run.cache
           /\ embed_ret' = IF run.embedded THEN run.embed ELSE embed_ret
           /\ last_op' = IF run.embedded THEN "embed_text" ELSE last_op
           /\ c_fail' = c_fail \cup QueryFailures(run, index_up)
           /\ c_steps' = Append(c_steps, "retrieve")
           /\ IF run.ret.raised
              THEN ChatEnds(ServerError) /\ UNCHANGED c_matches
              ELSE c_matches' = run.ret.value /\ c_pc' = "expand" /\ UNCHANGED c_out
    /\ UNCHANGED <<c_in, c_query, c_ids, c_arg, c_facts, c_prompt>>
    /\ UNCHANGED <<app, extraVars, queryVars, graphVars, groqVars, prepVars, loopVars>>

\* match_ids = [m["id"] for m in matches]; fetch_graph_context(match_ids)
WebChatExpand(script, session_ok) ==
    /\ app = "web" /\ c_pc = "expand"
    /\ c_ids' = MatchIds(c_matches)
    /\ c_arg' = c_ids'
    /\ LET run == WebFetchRun(c_arg', script, session_ok, driver_up)
       IN  /\ c_facts' = run.facts
           /\ c_fail' = c_fail \cup FetchFailures(c_arg', run, driver_up)
    /\ c_steps' = Append(c_steps, "expand")
    /\ c_pc' = "assemble"
    /\ UNCHANGED <<c_in, c_query, c_matches, c_prompt, c_out>>
    /\ UNCHANGED <<app, extraVars, queryVars, graphVars, cacheVars, groqVars, prepVars, loopVars>>

\* prompt = build_prompt(query, matches, graph_facts)
WebAssemble ==
    /\ app = "web" /\ c_pc = "assemble"
    /\ c_prompt' = WebBuildPrompt(c_query, c_matches, c_facts)
    /\ c_steps' = Append(c_steps, "assemble")
    /\ c_pc' = "generate"
    /\ UNCHANGED <<c_in, c_query, c_matches, c_ids, c_arg, c_facts, c_fail, c_out>>
    /\ UNCHANGED <<app, extraVars, queryVars, graphVars, cacheVars, groqVars, prepVars, loopVars>>

\* answer = call_groq_chat(prompt); return jsonify({...})
WebChatGenerate(client_ok, attempts) ==
    /\ app = "web" /\ c_pc = "generate"
    /\ LET r == WebGroqRun(client_ok, attempts)
       IN  /\ c_fail' = c_fail \cup (IF r.value = WEB_APOLOGY THEN {"groq"} ELSE {})
           /\ ChatEnds(IF r.raised THEN ServerError ELSE Ok(r.value, c_matches, c_ids))
    /\ c_steps' = Append(c_steps, "generate")
    /\ UNCHANGED <<c_in, c_query, c_matches, c_ids, c_arg, c_facts, c_prompt>>
    /\ UNCHANGED <<app, extraVars, queryVars, graphVars, cacheVars, groqVars, prepVars, loopVars>>

\* interactive_chat: input().strip(), exit and quit, clear
CliChatInput(line) ==
    /\ app = "cli" /\ c_pc = "idle"
    /\ c_in' = [json |-> FALSE, has_message |-> TRUE, message |-> line.text]
    /\ c_query' = Strip(line.text)
    /\ IF ~Truthy(c_query') \/ line.word \in {"exit", "quit"}
       THEN /\ c_pc' = "exited" /\ c_out' = Printed("goodbye", "")
            /\ UNCHANGED cacheVars
       ELSE IF line.word = "clear"
       THEN /\ embedding_cache' = <<>> /\ last_op' = "clear" /\ UNCHANGED embed_ret
            /\ ChatEnds(Printed("cleared", ""))
       ELSE c_pc' = "retrieve" /\ UNCHANGED <<c_out, cacheVars>>
    /\ UNCHANGED <<c_matches, c_ids, c_arg, c_facts, c_prompt, c_steps, c_fail>>
    /\ UNCHANGED <<app, extraVars, queryVars, graphVars, groqVars, prepVars, loopVars>>

\* matches = pinecone_query(query, top_k=5); if not matches: print, continue
CliChatRetrieve(model_ok, resp) ==
    /\ app = "cli" /\ c_pc = "retrieve"
    /\ LET run == CliQueryRun(embedding_cache, c_query, model_ok, resp)
       IN  /\ embedding_cache' = run.cache
           /\ embed_ret' = run.embed
           /\ last_op' = "embed_text"
           /\ c_fail' = c_fail \cup QueryFailures(run, TRUE)
           /\ c_steps' = Append(c_steps, "retrieve")
           /\ IF run.ret.raised
              THEN ChatEnds(Printed("error", "")) /\ UNCHANGED c_matches
              ELSE /\ c_matches' = run.ret.value
                   /\ IF c_matches' = <<>>
                      THEN ChatEnds(Printed("no_results", ""))
                      ELSE c_pc' = "expand" /\ UNCHANGED c_out
    /\ UNCHANGED <<c_in, c_query, c_ids, c_arg, c_facts, c_prompt>>
    /\ UNCHANGED <<app, extraVars, queryVars, graphVars, groqVars, prepVars, loopVars>>

\* match_ids = [m["id"] for m in matches]; fetch_graph_context(match_ids)
CliChatExpand(script, session_ok) ==
    /\ app = "cli" /\ c_pc = "expand"
    /\ c_ids' = MatchIds(c_matches)
    /\ c_arg' = c_ids'
    /\ LET run == CliFetchRun(c_arg', script, session_ok)
       IN  /\ c_facts' = run.facts
           /\ c_fail' = c_fail \cup FetchFailures(c_arg', run, TRUE)
    /\ c_steps' = Append(c_steps, "expand")
    /\ c_pc' = "assemble"
    /\ UNCHANGED <<c_in, c_query, c_matches, c_prompt, c_out>>
    /\ UNCHANGED <<app, extraVars, queryVars, graphVars, cacheVars, groqVars, prepVars, loopVars>>

\* prompt = build_prompt(query, matches, graph_facts)
CliAssemble ==
    /\ app = "cli" /\ c_pc = "assemble"
    /\ c_prompt' = CliBuildPrompt(c_query, c_matches, c_facts)
    /\ c_steps' = Append(c_steps, "assemble")
    /\ c_pc' = "generate"
    /\ UNCHANGED <<c_in, c_query, c_matches, c_ids, c_arg, c_facts, c_fail, c_out>>
    /\ UNCHANGED <<app, extraVars, queryVars, graphVars, cacheVars, groqVars, prepVars, loopVars>>

\* answer = call_groq_chat(prompt); print(answer)
CliChatGenerate(client_ok, call) ==
    /\ app = "cli" /\ c_pc = "generate"
    /\ LET r == CliGroqRun(client_ok, call)
       IN  /\ c_fail' = c_fail \cup (IF r.value = CLI_APOLOGY THEN {"groq"} ELSE {})
           /\ ChatEnds(IF r.raised THEN Printed("error", "")
                       ELSE Printed("answer", r.value))
    /\ c_steps' = Append(c_steps, "generate")
    /\ UNCHANGED <<c_in, c_query, c_matches, c_ids, c_arg, c_facts, c_prompt>>
    /\ UNCHANGED <<app, extraVars, queryVars, graphVars, cacheVars, groqVars, prepVars, loopVars>>

\* the response is sent, or the loop comes back to input()
ChatDone ==
    /\ c_pc = "done"
    /\ c_pc' = "idle" /\ c_in' = NoBody /\ c_query' = NoneText
    /\ c_matches' = <<>> /\ c_ids' = <<>> /\ c_arg' = <<>> /\ c_facts' = <<>>
    /\ c_prompt' = <<>> /\ c_steps' = <<>> /\ c_fail' = {} /\ c_out' = NoOut
    /\ UNCHANGED <<app, extraVars, queryVars, graphVars, cacheVars, groqVars, prepVars, loopVars>>

InitChat ==
    /\ app \in {"web", "cli"}
    /\ index_up \in (IF app = "web" THEN BOOLEAN ELSE {TRUE})
    /\ driver_up \in (IF app = "web" THEN BOOLEAN ELSE {TRUE})
    /\ ExtraIdle /\ CacheIdle /\ QueryIdle /\ FetchIdle /\ ChatIdle /\ GroqIdle /\ IngestIdle

NextChat ==
    \/ \E body \in Bodies : WebChatRequest(body)
    \/ \E model_ok \in BOOLEAN, resp \in ChatResponses : WebChatRetrieve(model_ok, resp)
    \/ \E session_ok \in BOOLEAN : \E script \in ChatScripts(Len(c_matches)) :
           WebChatExpand(script, session_ok)
    \/ WebAssemble
    \/ \E client_ok \in BOOLEAN, attempts \in ChatAttempts :
           WebChatGenerate(client_ok, attempts)
    \/ \E line \in Lines : CliChatInput(line)
    \/ \E model_ok \in BOOLEAN, resp \in ChatResponses : CliChatRetrieve(model_ok, resp)
    \/ \E session_ok \in BOOLEAN : \E script \in ChatScripts(Len(c_matches)) :
           CliChatExpand(script, session_ok)
    \/ CliAssemble
    \/ \E client_ok \in BOOLEAN, call \in ChatCalls :
           CliChatGenerate(client_ok, call)
    \/ ChatDone

SpecChat == InitChat /\ [][NextChat]_vars

(***************************************************************************)
(* build_prompt on its own: the arguments are drawn, the function applied. *)
(***************************************************************************)
MaxPromptMatches == 11
MaxPromptFacts == 21

PromptMatches ==
    {[k \in 1..n |-> [id |-> k, has_score |-> TRUE, score |-> 90]] :
        n \in 0..MaxPromptMatches}
PromptFacts == {RowsOf(1, n) : n \in 0..MaxPromptFacts}

InitPrompt ==
    /\ app \in {"web", "cli"}
    /\ index_up = TRUE /\ driver_up = TRUE
    /\ ExtraIdle /\ CacheIdle /\ QueryIdle /\ FetchIdle /\ GroqIdle /\ IngestIdle
    /\ c_pc = "assemble" /\ c_in = NoBody /\ c_query \in QueryInputs
    /\ c_matches \in PromptMatches /\ c_facts \in PromptFacts
    /\ c_ids = <<>> /\ c_arg = <<>>
    /\ c_prompt = <<>> /\ c_steps = <<>> /\ c_fail = {} /\ c_out = NoOut

NextPrompt == WebAssemble \/ CliAssemble

SpecPrompt == InitPrompt /\ [][NextPrompt]_vars

(***************************************************************************)
(* Index provisioning: pinecone_upload.py 75-99.  indexes is what the      *)
(* store holds; the script is run again and again against the same store.  *)
(***************************************************************************)
MaxRuns == 3
IndexNames == {"travel", "other-a", "other-b"}

\* create_index called whatever the list holds
IndexAbsent_Always(name, existing) == TRUE

\* config.PINECONE_INDEX_NAME not in existing_indexes
IndexAbsent(name, existing) == name \notin existing

\* existing_indexes = [idx.name for idx in pc.list_indexes()]
ProvList ==
    /\ app = "ingest" /\ v_pc = "start"
    /\ existing_indexes' = indexes
    /\ v_pc' = "listed"
    /\ UNCHANGED <<index_name, indexes, created, create_calls, index, runs>>
    /\ UNCHANGED <<app, cacheVars, groqVars, prepVars, loopVars, pipeVars, raceVars>>

\* pc.create_index(name=config.PINECONE_INDEX_NAME, ...): the index is there
\* afterwards, or the call throws and the script ends
ProvCreate(create_ok) ==
    /\ app = "ingest" /\ v_pc = "listed"
    /\ IndexAbsent(index_name, existing_indexes)
    /\ create_calls' = Append(create_calls, index_name)
    /\ created' = TRUE
    /\ IF create_ok
       THEN indexes' = indexes \cup {index_name} /\ v_pc' = "open"
       ELSE indexes' = indexes /\ v_pc' = "aborted"
    /\ UNCHANGED <<index_name, existing_indexes, index, runs>>
    /\ UNCHANGED <<app, cacheVars, groqVars, prepVars, loopVars, pipeVars, raceVars>>

\* else: "Using existing index"
ProvUseExisting ==
    /\ app = "ingest" /\ v_pc = "listed"
    /\ ~IndexAbsent(index_name, existing_indexes)
    /\ v_pc' = "open"
    /\ UNCHANGED <<index_name, indexes, existing_indexes, created, create_calls, index, runs>>
    /\ UNCHANGED <<app, cacheVars, groqVars, prepVars, loopVars, pipeVars, raceVars>>

\* index = pc.Index(config.PINECONE_INDEX_NAME)
ProvOpen ==
    /\ app = "ingest" /\ v_pc = "open"
    /\ index' = index_name
    /\ v_pc' = "ready"
    /\ UNCHANGED <<index_name, indexes, existing_indexes, created, create_calls, runs>>
    /\ UNCHANGED <<app, cacheVars, groqVars, prepVars, loopVars, pipeVars, raceVars>>

\* the script is started again
ProvRunAgain ==
    /\ app = "ingest" /\ v_pc \in {"ready", "aborted"}
    /\ runs < MaxRuns
    /\ runs' = runs + 1
    /\ v_pc' = "start" /\ existing_indexes' = {} /\ created' = FALSE /\ index' = ""
    /\ UNCHANGED <<index_name, indexes, create_calls>>
    /\ UNCHANGED <<app, cacheVars, groqVars, prepVars, loopVars, pipeVars, raceVars>>

InitProvision ==
    /\ app = "ingest"
    /\ CacheIdle /\ GroqIdle /\ PipeIdle /\ IngestIdle /\ RaceIdle
    /\ index_name \in IndexNames
    /\ indexes \in SUBSET IndexNames
    /\ v_pc = "start" /\ existing_indexes = {} /\ created = FALSE
    /\ create_calls = <<>> /\ index = "" /\ runs = 1

NextProvision ==
    \/ ProvList
    \/ \E create_ok \in BOOLEAN : ProvCreate(create_ok)
    \/ ProvUseExisting
    \/ ProvOpen
    \/ ProvRunAgain

SpecProvision == InitProvision /\ [][NextProvision]_vars

(***************************************************************************)
(* pinecone_upload.py.                                                     *)
(* BATCH_SIZE is 32 at pinecone_upload.py:105; the model runs it at a      *)
(* small size, every property being stated in terms of BATCH_SIZE itself.  *)
(***************************************************************************)
BATCH_SIZE == 2
MaxNodes == 4
DESC_LIMIT == 1000
MAX_RETRIES == 3
RETRY_DELAY == 2

\* a record's id as the JSON holds it, a number or a string
IntId(digits) == [kind |-> "int", repr |-> digits]
StrId(chars) == [kind |-> "str", repr |-> chars]
\* str(node["id"])
Str(id) == id.repr

Node(id, semantic_text, description) ==
    [id |-> id, semantic_text |-> semantic_text, description |-> description]

\* the records a dataset is made of
NodeSet ==
    { Node(IntId("1"), Text(0, 2), NoneText),
      Node(StrId("1"), EmptyText, Text(0, 3)),
      Node(StrId("1"), Text(1, 0), Text(0, 1)),
      Node(StrId("2"), NoneText, Text(DESC_LIMIT - 1, 2)),
      Node(StrId("2"), NoneText, Text(DESC_LIMIT, 1)),
      Node(StrId("3"), Text(0, 1), NoneText) }

Datasets == UNION {[1..n -> NodeSet] : n \in 0..MaxNodes}

\* node.get("semantic_text") or (node.get("description") or "")[:1000]
SemanticText(node) ==
    PyOr(node.semantic_text, Slice(PyOr(node.description, EmptyText), DESC_LIMIT))

Item(node_id, semantic_text, meta, src) ==
    [id |-> node_id, text |-> semantic_text, meta |-> meta, src |-> src]

\* the loop body with seen_ids.add(node_id) lost
PrepareStep_NoSeenAdd(st, node, src) ==
    LET semantic_text == SemanticText(node)
        node_id == Str(node.id)
    IN  IF Strip(semantic_text) = EmptyText
        THEN [st EXCEPT !.skipped = @ + 1]
        ELSE IF node_id \in st.seen_ids
        THEN [st EXCEPT !.skipped = @ + 1]
        ELSE [st EXCEPT !.items = Append(@, Item(node_id, semantic_text, node.id, src))]

\* the loop body testing "if not semantic_text" without strip()
PrepareStep_NoStrip(st, node, src) ==
    LET semantic_text == SemanticText(node)
        node_id == Str(node.id)
    IN  IF ~Truthy(semantic_text)
        THEN [st EXCEPT !.skipped = @ + 1]
        ELSE IF node_id \in st.seen_ids
        THEN [st EXCEPT !.skipped = @ + 1]
        ELSE [st EXCEPT !.seen_ids = @ \cup {node_id},
                        !.items = Append(@, Item(node_id, semantic_text, node.id, src))]

\* the body of the loop over nodes, for the record at position src (src is
\* kept with the item to tell which record it came from)
PrepareStep(st, node, src) ==
    LET semantic_text == SemanticText(node)
        node_id == Str(node.id)
    IN  IF Strip(semantic_text) = EmptyText
        THEN [st EXCEPT !.skipped = @ + 1]
        ELSE IF node_id \in st.seen_ids
        THEN [st EXCEPT !.skipped = @ + 1]
        ELSE [st EXCEPT !.seen_ids = @ \cup {node_id},
                        !.items = Append(@, Item(node_id, semantic_text, node.id, src))]

PrepareNode ==
    /\ app = "ingest" /\ pc = "prepare"
    /\ n_pos < Len(nodes)
    /\ LET st == PrepareStep([items |-> items, skipped |-> skipped, seen_ids |-> seen_ids],
                             nodes[n_pos + 1], n_pos + 1)
       IN  /\ items' = st.items
           /\ skipped' = st.skipped
           /\ seen_ids' = st.seen_ids
    /\ n_pos' = n_pos + 1
    /\ UNCHANGED <<app, extraVars, pipeVars, nodes, cacheVars, groqVars, loopVars>>

\* all nodes are read: the counters of the upload are set
PrepareDone ==
    /\ app = "ingest" /\ pc = "prepare"
    /\ n_pos = Len(nodes)
    /\ pc' = "loop" /\ i' = 0
    /\ successful_upserts' = 0 /\ failed_upserts' = 0
    /\ UNCHANGED <<app, extraVars, pipeVars, prepVars, cacheVars, groqVars, vectors, attempt, retry_delay,
                   sleeps, calls, ret, attempted, submitted, no_embeddings>>

total_batches == (Len(items) + BATCH_SIZE - 1) \div BATCH_SIZE
\* the slice taken from the start of items whatever the batch
Batch_FromStart(from) == SubSeq(items, 1, Min(BATCH_SIZE, Len(items)))

\* items[i:i+BATCH_SIZE]
Batch(from) == SubSeq(items, from + 1, Min(from + BATCH_SIZE, Len(items)))
batch_num == i \div BATCH_SIZE + 1

\* get_embedding then normalize_vector, for a text the model embeds
Embedding(text) == Normalize(ModelOutput(text))

\* ids and metadata taken from the head of the batch, not from the items
\* the embeddings belong to
ValidVectors_Misaligned(batch, embed_ok, k) ==
    LET ok == embed_ok \cap 1..Len(batch)
        Nth(j) == CHOOSE p \in ok : Cardinality({q \in ok : q < p}) = j - 1
    IN  [j \in 1..Cardinality(ok) |->
            [id |-> batch[j].id, values |-> Embedding(batch[Nth(j)].text),
             metadata |-> batch[j].meta]]

RECURSIVE ValidVectors(_, _, _)
\* the vectors of the items of batch, from position k on, whose embedding is
\* not None (embed_ok: the positions get_embedding succeeds on)
ValidVectors(batch, embed_ok, k) ==
    IF k > Len(batch) THEN <<>>
    ELSE LET rest == ValidVectors(batch, embed_ok, k + 1)
         IN  IF k \in embed_ok
             THEN <<[id |-> batch[k].id, values |-> Embedding(batch[k].text),
                     metadata |-> batch[k].meta]>> \o rest
             ELSE rest

\* the test lost: the loop body goes on to the upsert
NoEmbeddings_Ignored(embeddings) == FALSE

\* if not embeddings
NoEmbeddings(embeddings) == embeddings = <<>>

\* the loop body up to the upsert: the batch is embedded
BatchEmbed(embed_ok) ==
    /\ app = "ingest" /\ pc = "loop"
    /\ i < Len(items)
    /\ embed_ok \subseteq 1..Len(Batch(i))
    /\ attempted' = attempted \cup {batch_num}
    /\ no_embeddings' = IF embed_ok = {} THEN no_embeddings \cup {batch_num}
                        ELSE no_embeddings
    /\ LET batch == Batch(i)
           built == ValidVectors(batch, embed_ok, 1)
       IN  IF NoEmbeddings(built)
           THEN /\ failed_upserts' = failed_upserts + Len(batch)
                /\ i' = i + BATCH_SIZE
                /\ UNCHANGED <<pc, vectors, attempt, retry_delay, sleeps, calls>>
           ELSE /\ vectors' = built
                /\ pc' = "upsert"
                /\ attempt' = 0
                /\ retry_delay' = RETRY_DELAY
                /\ sleeps' = <<>>
                /\ calls' = <<>>
                /\ UNCHANGED <<i, failed_upserts>>
    /\ UNCHANGED <<app, extraVars, pipeVars, prepVars, cacheVars, groqVars, ret, successful_upserts, submitted>>

\* the loop body throws before the upsert (normalize_vector is not guarded):
\* the handler of the loop body counts the batch as failed
BatchUnexpectedError ==
    /\ app = "ingest" /\ pc = "loop"
    /\ i < Len(items)
    /\ attempted' = attempted \cup {batch_num}
    /\ failed_upserts' = failed_upserts + Len(Batch(i))
    /\ i' = i + BATCH_SIZE
    /\ UNCHANGED <<app, extraVars, pipeVars, prepVars, cacheVars, groqVars, pc, vectors, attempt, retry_delay,
                   sleeps, calls, ret, successful_upserts, submitted, no_embeddings>>

UpsertOutcomes == {"truthy", "falsy", "raise"}

\* the iteration giving up one attempt early
UpsertIteration_GivesUpEarly(att, delay, outcome) ==
    IF outcome # "raise"
    THEN [done |-> TRUE, ret |-> [result |-> outcome, error |-> "None"],
          attempt |-> att, delay |-> delay, slept |-> <<>>]
    ELSE IF att < MAX_RETRIES - 2
    THEN [done |-> FALSE, ret |-> NoUpsertRet,
          attempt |-> att + 1, delay |-> delay * 2, slept |-> <<delay>>]
    ELSE [done |-> TRUE, ret |-> [result |-> "None", error |-> "upsert error"],
          attempt |-> att, delay |-> delay, slept |-> <<>>]

\* the iteration with "retry_delay *= 2" lost
UpsertIteration_NoBackoff(att, delay, outcome) ==
    IF outcome # "raise"
    THEN [done |-> TRUE, ret |-> [result |-> outcome, error |-> "None"],
          attempt |-> att, delay |-> delay, slept |-> <<>>]
    ELSE IF att < MAX_RETRIES - 1
    THEN [done |-> FALSE, ret |-> NoUpsertRet,
          attempt |-> att + 1, delay |-> delay, slept |-> <<delay>>]
    ELSE [done |-> TRUE, ret |-> [result |-> "None", error |-> "upsert error"],
          attempt |-> att, delay |-> delay, slept |-> <<>>]

\* one iteration of upsert_with_retry's loop, index.upsert having ended with
\* outcome: done with what is returned, or the sleep and the next attempt
UpsertIteration(att, delay, outcome) ==
    IF outcome # "raise"
    THEN [done |-> TRUE, ret |-> [result |-> outcome, error |-> "None"],
          attempt |-> att, delay |-> delay, slept |-> <<>>]
    ELSE IF att < MAX_RETRIES - 1
    THEN [done |-> FALSE, ret |-> NoUpsertRet,
          attempt |-> att + 1, delay |-> delay * 2, slept |-> <<delay>>]
    ELSE [done |-> TRUE, ret |-> [result |-> "None", error |-> "upsert error"],
          attempt |-> att, delay |-> delay, slept |-> <<>>]

\* upsert_with_retry: one call of index.upsert(vectors) and what follows it
UpsertAttempt(outcome) ==
    /\ app = "ingest" /\ pc = "upsert"
    /\ calls' = Append(calls, outcome)
    /\ submitted' = submitted \cup {<<batch_num, vectors[k].id>> : k \in 1..Len(vectors)}
    /\ LET it == UpsertIteration(attempt, retry_delay, outcome)
       IN  /\ attempt' = it.attempt
           /\ retry_delay' = it.delay
           /\ sleeps' = sleeps \o it.slept
           /\ IF it.done
              THEN pc' = "returned" /\ ret' = it.ret
              \* range(max_retries) is used up: return None, Exception("Max retries exceeded")
              ELSE IF it.attempt >= MAX_RETRIES
              THEN pc' = "returned"
                   /\ ret' = [result |-> "None", error |-> "Max retries exceeded"]
              ELSE pc' = "upsert" /\ ret' = it.ret
    /\ UNCHANGED <<app, extraVars, pipeVars, prepVars, cacheVars, groqVars, i, vectors,
                   successful_upserts, failed_upserts, attempted, no_embeddings>>

\* the count with a failed batch ending the run
Counted_AbortsOnFailure(r, n) ==
    IF r.result = "truthy"
    THEN [successful |-> n, failed |-> 0, pc |-> "loop"]
    ELSE [successful |-> 0, failed |-> n, pc |-> "aborted"]

\* if result: ... else: ...
Counted(r, n) ==
    IF r.result = "truthy"
    THEN [successful |-> n, failed |-> 0, pc |-> "loop"]
    ELSE [successful |-> 0, failed |-> n, pc |-> "loop"]

\* the loop body after upsert_with_retry: the count, the pause, the next batch
BatchCount ==
    /\ app = "ingest" /\ pc = "returned"
    /\ LET c == Counted(ret, Len(vectors))
       IN  /\ successful_upserts' = successful_upserts + c.successful
           /\ failed_upserts' = failed_upserts + c.failed
           /\ pc' = c.pc
    /\ i' = i + BATCH_SIZE
    /\ vectors' = <<>> /\ attempt' = 0 /\ retry_delay' = 0
    /\ sleeps' = <<>> /\ calls' = <<>> /\ ret' = NoUpsertRet
    /\ UNCHANGED <<app, extraVars, pipeVars, prepVars, cacheVars, groqVars, attempted, submitted,
                   no_embeddings>>

\* the loop is over: the final statistics
FinalStatistics ==
    /\ app = "ingest" /\ pc = "loop"
    /\ i >= Len(items)
    /\ pc' = "stats"
    /\ UNCHANGED <<app, extraVars, pipeVars, prepVars, cacheVars, groqVars, i, vectors, attempt, retry_delay,
                   sleeps, calls, ret, successful_upserts, failed_upserts, attempted,
                   submitted, no_embeddings>>

InitIngest ==
    /\ app = "ingest"
    /\ ExtraIdle /\ CacheIdle /\ GroqIdle /\ PipeIdle
    /\ nodes \in Datasets
    /\ n_pos = 0 /\ items = <<>> /\ skipped = 0 /\ seen_ids = {}
    /\ pc = "prepare" /\ i = 0 /\ vectors = <<>>
    /\ attempt = 0 /\ retry_delay = 0 /\ sleeps = <<>> /\ calls = <<>>
    /\ ret = NoUpsertRet
    /\ successful_upserts = 0 /\ failed_upserts = 0
    /\ attempted = {} /\ submitted = {} /\ no_embeddings = {}

NextIngest ==
    \/ PrepareNode
    \/ PrepareDone
    \/ \E embed_ok \in SUBSET (1..BATCH_SIZE) : BatchEmbed(embed_ok)
    \/ BatchUnexpectedError
    \/ \E outcome \in UpsertOutcomes : UpsertAttempt(outcome)
    \/ BatchCount
    \/ FinalStatistics

SpecIngest == InitIngest /\ [][NextIngest]_vars

\* the script runs on: no step that can be taken is put off for ever
FairSpecIngest == SpecIngest /\ WF_vars(NextIngest)

(***************************************************************************)
(* Properties of the embedding cache (SpecCache).                          *)
(***************************************************************************)

\* C1: after any sequence of embed_text calls the embedding cache holds at
\* most CACHE_MAX_SIZE entries, in the web service and in the CLI.
C1_CacheBounded == Len(embedding_cache) <= CACHE_MAX_SIZE

\* The CLI's half of C1, which does hold.
CliCacheBounded == app = "cli" => Len(embedding_cache) <= CACHE_MAX_SIZE

\* a step that stores a text the cache did not hold
Inserts == DictKeys(embedding_cache') \ DictKeys(embedding_cache) # {}
\* a step that serves a call from the cache
IsHit == embed_ret' # embed_ret /\ embed_ret'.outcome = "return" /\ ~embed_ret'.invoked

\* C10: an insert into a cache that holds CACHE_MAX_SIZE entries removes
\* exactly one entry first, the one inserted earliest among those present,
\* and a cache hit leaves the eviction order as it is.
C10_FifoEviction ==
    [][ /\ (Inserts /\ Len(embedding_cache) >= CACHE_MAX_SIZE) =>
              /\ Len(embedding_cache') = Len(embedding_cache)
              /\ SubSeq(embedding_cache', 1, Len(embedding_cache) - 1) = Tail(embedding_cache)
        /\ IsHit => embedding_cache' = embedding_cache ]_vars

\* The CLI's half of C10, which does hold.
CliFifoEviction ==
    [][ app = "cli" =>
        /\ (Inserts /\ Len(embedding_cache) >= CACHE_MAX_SIZE) =>
              /\ Len(embedding_cache') = Len(embedding_cache)
              /\ SubSeq(embedding_cache', 1, Len(embedding_cache) - 1) = Tail(embedding_cache)
        /\ IsHit => embedding_cache' = embedding_cache ]_vars

\* C11: a second embed_text call on the text of the call before it returns
\* the same vector, from the cache, the model not being invoked: the text a
\* call returned a vector for is cached with that vector, and the call that
\* follows on it returns the cached vector.
C11_SecondCallFromCache ==
    /\ [](  (last_op = "embed_text" /\ embed_ret.outcome = "return") =>
              /\ DictHas(embedding_cache, embed_ret.text)
              /\ DictValue(embedding_cache, embed_ret.text) = embed_ret.value )
    /\ [][ ( /\ last_op = "embed_text" /\ embed_ret.outcome = "return"
             /\ last_op' = "embed_text" /\ embed_ret'.text = embed_ret.text ) =>
              /\ embed_ret'.outcome = "return"
              /\ embed_ret'.value = embed_ret.value
              /\ ~embed_ret'.invoked
              /\ embedding_cache' = embedding_cache ]_vars

C11_Witness ==
    /\ last_op = "embed_text"
    /\ embed_ret.outcome = "return" /\ ~embed_ret.invoked
    /\ Len(embedding_cache) = CACHE_MAX_SIZE
    /\ embed_ret.value = Normalize(ModelOutput(embed_ret.text))

\* the k-th entry is in the cache with its value after the step
Kept(k) ==
    /\ DictHas(embedding_cache', embedding_cache[k].key)
    /\ DictValue(embedding_cache', embedding_cache[k].key) = embedding_cache[k].value

\* C21: an entry leaves the cache, or has its value replaced, only as the
\* oldest entry of a full cache, evicted by the insert of a new text.
C21_OnlyEvictionRemoves ==
    [][ \A k \in 1..Len(embedding_cache) :
            ~Kept(k) =>
                /\ k = 1
                /\ Len(embedding_cache) >= CACHE_MAX_SIZE
                /\ Inserts ]_vars

(***************************************************************************)
(* Properties of pinecone_query (SpecQuery).                               *)
(***************************************************************************)
AtOrAbove(m) == m.has_score /\ m.score >= SCORE_THRESHOLD

\* C12: no returned match has a score below SCORE_THRESHOLD or no score;
\* every match of the store's answer at or above it is returned, unchanged;
\* the returned matches are in the store's order.
C12_ThresholdFilter ==
    q_pc = "returned" =>
        /\ \A k \in 1..Len(q_ret.value) : AtOrAbove(q_ret.value[k])
        /\ q_resp.kind = "matches" =>
             /\ \A k \in 1..Len(q_ret.value) :
                    /\ q_ret.value[k].id \in 1..Len(q_resp.matches)
                    /\ q_ret.value[k] = q_resp.matches[q_ret.value[k].id]
             /\ \A j \in 1..Len(q_resp.matches) :
                    AtOrAbove(q_resp.matches[j]) =>
                        \E k \in 1..Len(q_ret.value) : q_ret.value[k].id = j
             /\ \A k \in 1..(Len(q_ret.value) - 1) :
                    q_ret.value[k].id < q_ret.value[k + 1].id

C12_Witness ==
    /\ q_pc = "returned" /\ q_resp.kind = "matches"
    /\ Len(q_resp.matches) = 4
    /\ \A k \in 1..4 : q_resp.matches[k].has_score
    /\ [k \in 1..4 |-> q_resp.matches[k].score] = <<90, 75, 65, 50>>
    /\ q_ret.value = SubSeq(q_resp.matches, 1, 2)

EmbeddingFailed ==
    index_up /\ last_op = "embed_text" /\ embed_ret.outcome \in {"return_none", "raise"}

\* C13: pinecone_query never raises; it returns the empty list when the
\* index is not initialised, when embed_text fails and when the store query
\* errors, and in the first two cases it issues no store query.
C13_EmptyOnFailure ==
    q_pc = "returned" =>
        /\ ~q_ret.raised
        /\ (~index_up \/ EmbeddingFailed \/ q_resp.kind = "error") => q_ret.value = <<>>
        /\ (~index_up \/ EmbeddingFailed) => q_store_calls = 0 /\ q_resp = NoResp
        /\ q_resp.kind = "error" => q_store_calls = 1

C13_Witness ==
    /\ q_pc = "returned" /\ app = "cli"
    /\ embed_ret.outcome = "raise" /\ q_store_calls = 0
    /\ q_ret = QReturn(<<>>)

(***************************************************************************)
(* Properties of fetch_graph_context (SpecGraph).                          *)
(***************************************************************************)
\* the facts of the ids from the k-th on, those whose query errored left out
RECURSIVE FactsOfOthers(_, _, _)
FactsOfOthers(ids, errored, k) ==
    IF k > Len(ids) THEN <<>>
    ELSE (IF errored[k] THEN <<>> ELSE RowsOf(ids[k], GraphRows(ids[k])))
             \o FactsOfOthers(ids, errored, k + 1)

\* C14: fetch_graph_context never raises; when it has run its queries, the
\* result is the facts of the ids whose query did not error, all of them,
\* in the order of the ids, and no fact of an id whose query errored.
C14_ErroringIdContributesNothing ==
    f_pc = "returned" =>
        /\ ~f_ret.raised
        /\ f_run.opened => f_ret.value = FactsOfOthers(f_ids, f_run.errored, 1)

\* C15: once the connection is lost at the query of an id, no query is
\* issued for the ids after it.
C15_AbortOnConnectionFailure ==
    (f_pc = "returned" /\ f_run.lost_at # 0) =>
        /\ Len(f_run.queries) = f_run.lost_at
        /\ f_ret.value = f_run.facts

(***************************************************************************)
(* Properties of the request handlers (SpecChat).                          *)
(***************************************************************************)
\* C16: a request with a non-empty message ends with an answer: the web
\* handler responds 200 with a 'response' string, and the CLI loop has
\* called call_groq_chat and printed its answer.
C16_AnswerAlwaysProduced ==
    (c_pc = "done" /\ Truthy(c_query) /\ c_out.kind # "cleared") =>
        /\ app = "web" => c_out.status = 200 /\ c_out.response # ""
        /\ app = "cli" =>
               /\ c_out.kind = "answer" /\ c_out.response # ""
               /\ c_steps[Len(c_steps)] = "generate"

PipelineOrder == <<"retrieve", "expand", "assemble", "generate">>

\* C17: the handler's steps are retrieve, expand, assemble, generate, in
\* that order and once each; in a 200 response graph_nodes is the ids of
\* the response's matches in their order, and is the list that was passed
\* to fetch_graph_context.
C17_GraphNodesAreMatchIds ==
    app = "web" =>
        /\ Len(c_steps) <= Len(PipelineOrder)
        /\ c_steps = SubSeq(PipelineOrder, 1, Len(c_steps))
        /\ (c_pc = "done" /\ c_out.status = 200) =>
               /\ c_steps = PipelineOrder
               /\ Len(c_out.graph_nodes) = Len(c_out.matches)
               /\ \A k \in 1..Len(c_out.matches) :
                      c_out.graph_nodes[k] = c_out.matches[k].id
               /\ c_out.graph_nodes = c_arg

C17_Witness ==
    /\ app = "web" /\ c_pc = "done" /\ c_out.status = 200
    /\ Len(c_out.matches) = 2
    /\ c_out.graph_nodes = <<c_out.matches[1].id, c_out.matches[2].id>>
    /\ c_out.matches[1].id # c_out.matches[2].id

\* an empty input: no JSON body, no message, or a message that is empty
\* once stripped
EmptyInput(body) ==
    \/ ~body.json
    \/ ~body.has_message
    \/ ~body.message.none /\ ~Truthy(Strip(body.message))

\* C18: every empty input is answered 400 with no retrieval, expansion or
\* generation step run; a 500 response carries the fixed message only.
C18_EmptyInputIs400 ==
    (app = "web" /\ c_pc = "done") =>
        /\ EmptyInput(c_in) => c_out = ClientError /\ c_steps = <<>>
        /\ c_out.status = 500 => c_out = ServerError

(***************************************************************************)
(* Properties of build_prompt (SpecPrompt).                                *)
(***************************************************************************)
HasNotice(content) ==
    \E k \in 1..Len(content.sections) : content.sections[k].title = NO_CONTEXT

IsOk(c) == c.outcome = "ok"
AllFailed == \A k \in 1..Len(g_calls) : ~IsOk(g_calls[k])

\* C2: the candidate models are called in list order, one call each; the
\* text of the first call that succeeds is returned, and no model is called
\* after a call that succeeded.
C2_FirstSuccessWins ==
    app = "web" =>
        /\ Len(g_calls) <= Len(models_to_try)
        /\ \A k \in 1..Len(g_calls) : g_calls[k].model = models_to_try[k]
        /\ \A k \in 1..Len(g_calls) : IsOk(g_calls[k]) =>
              /\ k = Len(g_calls)
              /\ g_pc = "done"
              /\ g_ret = Return(g_calls[k].reply)
        /\ (g_pc = "try" /\ g_calls # <<>>) => g_next = Len(g_calls) + 1

C2_Witness ==
    /\ app = "web" /\ g_pc = "done"
    /\ Len(g_calls) = 3
    /\ ~IsOk(g_calls[1]) /\ ~IsOk(g_calls[2]) /\ IsOk(g_calls[3])
    /\ g_calls[3].model = models_to_try[3]
    /\ g_ret = Return(g_calls[3].reply)

\* C3: when every candidate call fails, or the client cannot be constructed,
\* call_groq_chat returns its fixed apology and raises nothing.
C3_ApologyNotException ==
    g_pc = "done" =>
        /\ ~g_ret.raised
        /\ AllFailed => g_ret.value = (IF app = "web" THEN WEB_APOLOGY ELSE CLI_APOLOGY)

C3_Witness ==
    /\ app = "web" /\ g_pc = "done"
    /\ Len(g_calls) = Len(models_to_try)
    /\ AllFailed
    /\ g_ret = Return(WEB_APOLOGY)

(***************************************************************************)
(* Properties of index provisioning (SpecProvision).                       *)
(***************************************************************************)
\* C22: in a run, create_index has been called exactly when the configured
\* name was not among the listed indexes; a run started when the index
\* exists calls create_index not at all; and a run that gets to the upload
\* holds the index of the configured name, which exists.
C22_ProvisioningIdempotent ==
    /\ [](v_pc \in {"open", "ready"} =>
             /\ created <=> index_name \notin existing_indexes
             /\ index_name \in indexes)
    /\ [](v_pc = "ready" => index = index_name)
    /\ [][ (index_name \in indexes) => create_calls' = create_calls ]_vars

C22_Witness ==
    /\ v_pc = "ready" /\ runs = 2
    /\ create_calls = <<index_name>>
    /\ ~created
    /\ index = index_name

(***************************************************************************)
(* Properties of the ingestion (SpecIngest, FairSpecIngest).               *)
(***************************************************************************)
AllRaised == \A k \in 1..Len(calls) : calls[k] = "raise"

\* C4: upsert_with_retry calls the store at most max_retries times for one
\* batch, makes no call after a call that succeeded, and reports failure
\* only after exactly max_retries failed calls.
C4_BoundedAttempts ==
    /\ Len(calls) <= MAX_RETRIES
    /\ \A k \in 1..(Len(calls) - 1) : calls[k] = "raise"
    /\ pc = "upsert" => AllRaised
    /\ (pc = "returned" /\ ret.error # "None") => (Len(calls) = MAX_RETRIES /\ AllRaised)
    /\ (pc = "returned" /\ ret.error = "None") => calls[Len(calls)] # "raise"

C4_Witness ==
    /\ pc = "returned" /\ ret.error # "None"
    /\ Len(calls) = MAX_RETRIES /\ AllRaised

\* C5: a batch whose upsert succeeds on some attempt has every vector counted
\* as succeeded and none as failed, whatever the successful call returned.
C5_SucceededBatchCounted ==
    [][ (pc = "returned" /\ ret.error = "None") =>
            /\ successful_upserts' = successful_upserts + Len(vectors)
            /\ failed_upserts' = failed_upserts ]_vars

\* C6: the sleep before retry k lasts retry_delay * 2^(k-1); each sleep lies
\* between a failed attempt and the next attempt, so a finished
\* upsert_with_retry slept one time less than it called the store.
C6_ExponentialBackoff ==
    /\ \A k \in 1..Len(sleeps) :
          /\ sleeps[k] = RETRY_DELAY * 2^(k - 1)
          /\ k <= Len(calls) /\ calls[k] = "raise"
    /\ pc = "upsert" => (Len(sleeps) = Len(calls) /\ Len(calls) < MAX_RETRIES)
    /\ pc = "returned" => Len(sleeps) = Len(calls) - 1

C6_Witness ==
    /\ pc = "returned"
    /\ calls = <<"raise", "raise", "truthy">>
    /\ sleeps = <<2, 4>>

KeptSrc == {items[k].src : k \in 1..Len(items)}
NonBlank(p) == Strip(SemanticText(nodes[p])) # EmptyText
\* the first record, among those with text, to carry its id
FirstWithText(p) ==
    /\ NonBlank(p)
    /\ \A q \in 1..(p - 1) : NonBlank(q) => Str(nodes[q].id) # Str(nodes[p].id)
LaterDuplicates ==
    {q \in 1..n_pos : \E p \in 1..(q - 1) : nodes[p].id = nodes[q].id}

\* C8 as stated: of the records that share an id the first in input order is
\* kept, every later one is dropped, and each dropped duplicate is counted
\* once as skipped.
C8_FirstRecordKept ==
    /\ \A p \in 1..n_pos, q \in 1..n_pos :
          (p < q /\ nodes[p].id = nodes[q].id
                 /\ \A r \in 1..(p - 1) : nodes[r].id # nodes[p].id)
          => (p \in KeptSrc /\ q \notin KeptSrc)
    /\ Cardinality(LaterDuplicates) <= skipped

\* C8 as amended: of the records with non-blank semantic text that share an
\* id (as a string) the first in input order is kept and every later one is
\* dropped; every record dropped is counted once as skipped.
C8_FirstWithTextKept ==
    /\ KeptSrc = {p \in 1..n_pos : FirstWithText(p)}
    /\ \A j \in 1..Len(items), k \in 1..Len(items) : j < k => items[j].src < items[k].src
    /\ skipped = n_pos - Len(items)

C8_Witness ==
    /\ pc = "loop" /\ Len(nodes) = 2
    /\ NonBlank(1) /\ NonBlank(2)
    /\ nodes[1].id = nodes[2].id
    /\ KeptSrc = {1} /\ skipped = 1

\* C9: the prepared items never hold two items with one id, nor an item
\* whose semantic text is empty or whitespace; no id is submitted to the
\* store in two different batches of a run.
C9_UniqueIdsNoBlankText ==
    /\ \A j \in 1..Len(items), k \in 1..Len(items) : j # k => items[j].id # items[k].id
    /\ \A k \in 1..Len(items) : Strip(items[k].text) # EmptyText
    /\ \A s \in submitted, t \in submitted : s[2] = t[2] => s[1] = t[1]

C9_Witness ==
    /\ pc = "stats"
    /\ skipped >= 1
    /\ Cardinality({s[1] : s \in submitted}) >= 2

\* C20: a batch in which every embedding failed gets no index.upsert call,
\* and its items are all added to failed_upserts, none to
\* successful_upserts, the loop going on to the next batch.
C20_NoEmbeddingsNoUpsert ==
    /\ [](pc \in {"upsert", "returned"} => batch_num \notin no_embeddings)
    /\ [][ no_embeddings' # no_embeddings =>
              /\ failed_upserts' = failed_upserts + Len(Batch(i))
              /\ successful_upserts' = successful_upserts
              /\ pc' = "loop" /\ i' = i + BATCH_SIZE
              /\ calls' = <<>> /\ submitted' = submitted ]_vars

C20_Witness ==
    /\ pc = "stats"
    /\ 1 \in no_embeddings
    /\ failed_upserts = BATCH_SIZE
    /\ successful_upserts > 0


\* a step that calls index.upsert(vectors)
UpsertCall == Len(calls') = Len(calls) + 1

\* the position in items of the item with this id
PosOf(id) == CHOOSE p \in 1..Len(items) : items[p].id = id

\* C23, as stated: every index.upsert call submits exactly BATCH_SIZE
\* vectors, the items of the batch in order; a retry submits the same
\* vectors; at the end every prepared item was submitted, in one batch.
C23_FixedSizeGroups ==
    /\ [][ UpsertCall =>
              /\ Len(vectors) = BATCH_SIZE
              /\ \A k \in 1..Len(vectors) : vectors[k].id = items[i + k].id
              /\ pc' = "upsert" => vectors' = vectors /\ i' = i ]_vars
    /\ [](pc = "stats" =>
              \A p \in 1..Len(items) :
                  Cardinality({s \in submitted : s[2] = items[p].id}) = 1)

\* C23, amended: every index.upsert call submits between 1 and BATCH_SIZE
\* vectors, which belong to items of the current slice of BATCH_SIZE
\* prepared items, in the order of the items, no item twice; a retry
\* submits the same vectors; no item is submitted in two batches.
C23_GroupsWithinBatches ==
    /\ [][ UpsertCall =>
              /\ Len(vectors) \in 1..BATCH_SIZE
              /\ \A k \in 1..Len(vectors) :
                     /\ \E p \in 1..Len(items) : items[p].id = vectors[k].id
                     /\ PosOf(vectors[k].id) \in (i + 1)..(i + BATCH_SIZE)
              /\ \A k \in 1..(Len(vectors) - 1) :
                     PosOf(vectors[k].id) < PosOf(vectors[k + 1].id)
              /\ pc' = "upsert" => vectors' = vectors /\ i' = i ]_vars
    /\ [](\A s \in submitted, t \in submitted : s[2] = t[2] => s[1] = t[1])
    /\ [](\A s \in submitted : s[1] = (PosOf(s[2]) - 1) \div BATCH_SIZE + 1)

C23_Witness ==
    /\ pc = "upsert" /\ attempt = 1 /\ calls = <<"raise">>
    /\ Len(items) >= i + 2
    /\ Len(vectors) = 1
    /\ vectors[1].id = items[i + 2].id


\* C24: when the run ends, successful_upserts + failed_upserts is the
\* number of prepared items.
C24_EveryItemCounted ==
    pc = "stats" => successful_upserts + failed_upserts = Len(items)


\* C25: every vector handed to index.upsert carries the id and metadata of
\* a prepared item of the current batch and the embedding of that item's
\* semantic text.
C25_VectorsPairedWithOwnItem ==
    \A k \in 1..Len(vectors) :
        \E p \in (i + 1)..Min(i + BATCH_SIZE, Len(items)) :
            /\ vectors[k].id = items[p].id
            /\ vectors[k].metadata = items[p].meta
            /\ vectors[k].values = Embedding(items[p].text)

C25_Witness ==
    /\ pc = "returned" /\ ret.result = "truthy"
    /\ Len(items) >= i + 2
    /\ Embedding(items[i + 1].text) # Embedding(items[i + 2].text)
    /\ vectors = <<[id |-> items[i + 2].id, values |-> Embedding(items[i + 2].text),
                    metadata |-> items[i + 2].meta]>>

(***************************************************************************)
(* Properties of overlapping embed_text calls (SpecRace).                  *)
(***************************************************************************)
\* an exception of the dict operations, which a call running alone on a
\* cache within the limit does not meet
FailedByOther(c) == r_out[c] \in {"KeyError", "RuntimeError", "StopIteration"}

\* C26: when two embed_text calls on uncached texts overlap, the cache
\* never holds more than CACHE_MAX_SIZE entries and neither call fails
\* because of the other.
C26_OverlapSafe ==
    (\A c \in Callers : r_miss[c]) =>
        /\ Len(embedding_cache) <= CACHE_MAX_SIZE
        /\ \A c \in Callers : ~FailedByOther(c)

=============================================================================
